---- MODULE Spec2Model ----
(***************************************************************************)
(* Model of the Sidetree bitcoin blockchain service's transaction cache    *)
(* (InMemoryTransactionStore) and of the polling loop that feeds it        *)
(* (BlockchainService), both in src/src/TransactionStore.ts.               *)
(***************************************************************************)
EXTENDS Integers, Sequences, FiniteSets, TLC

\* ------------------------------------------------------------------------
\* Bounds of the model
\* ------------------------------------------------------------------------

\* Largest transactionNumber a caller of the store passes in SpecStore.
MaxTransactionNumber == 7

\* Largest transactionNumber the blockchain service hands out in SpecEngine.
MaxUpstreamNumber == 3

\* Largest number of transactions in one page of a fetch response.
MaxPage == 2

\* ------------------------------------------------------------------------
\* Values
\* ------------------------------------------------------------------------

\* JavaScript's `undefined`.
Undefined == [undefined |-> TRUE]

\* A defined optional number (the argument of removeTransactionsLaterThan,
\* the result of SortedArray.binarySearch).
Defined(n) == [value |-> n]

TimeHashes == {"h1", "h2"}

TransactionsUpTo(max) ==
  [transactionNumber : 1..max,
   transactionTime : {1},
   transactionTimeHash : TimeHashes,
   anchorFileHash : {"a"}]

Range(s) == {s[i] : i \in 1..Len(s)}

Numbers(s) == {s[i].transactionNumber : i \in 1..Len(s)}

StrictlyIncreasing(s) ==
  \A i \in 1..Len(s) : \A j \in 1..Len(s) :
    i < j => s[i].transactionNumber < s[j].transactionNumber

\* ------------------------------------------------------------------------
\* InMemoryTransactionStore
\* ------------------------------------------------------------------------

getLastTransaction_first(txs) ==
  IF Len(txs) = 0 THEN Undefined ELSE txs[1]

getLastTransaction(txs) ==
  IF Len(txs) = 0 THEN Undefined ELSE txs[Len(txs)]

\* The part of addTransaction after `await this.getLastTransaction()`:
\* lastTransaction is the value read before the await.
addTransaction_push_always(txs, lastTransaction, transaction) ==
  Append(txs, transaction)

addTransaction_push_strict(txs, lastTransaction, transaction) ==
  IF lastTransaction # Undefined
     /\ lastTransaction.transactionNumber > transaction.transactionNumber
  THEN txs
  ELSE Append(txs, transaction)

addTransaction_push(txs, lastTransaction, transaction) ==
  IF lastTransaction # Undefined
     /\ lastTransaction.transactionNumber >= transaction.transactionNumber
  THEN txs
  ELSE Append(txs, transaction)

\* A whole addTransaction call that nothing interleaves with.
addTransaction(txs, transaction) ==
  addTransaction_push(txs, getLastTransaction(txs), transaction)

RECURSIVE spacedLoop(_, _, _, _)
spacedLoop(txs, index, distance, acc) ==
  IF index >= 0
  THEN spacedLoop(txs, index - distance, distance * 2, Append(acc, txs[index + 1]))
  ELSE acc

RECURSIVE spacedLoop_linear(_, _, _, _)
spacedLoop_linear(txs, index, distance, acc) ==
  IF index >= 0
  THEN spacedLoop_linear(txs, index - distance, distance + 2, Append(acc, txs[index + 1]))
  ELSE acc

RECURSIVE spacedLoop_skipFirst(_, _, _, _)
spacedLoop_skipFirst(txs, index, distance, acc) ==
  IF index > 0
  THEN spacedLoop_skipFirst(txs, index - distance, distance * 2, Append(acc, txs[index + 1]))
  ELSE acc

getExponentiallySpacedTransactions_linear(txs) ==
  spacedLoop_linear(txs, Len(txs) - 1, 1, <<>>)

getExponentiallySpacedTransactions_skipFirst(txs) ==
  spacedLoop_skipFirst(txs, Len(txs) - 1, 1, <<>>)

getExponentiallySpacedTransactions(txs) ==
  spacedLoop(txs, Len(txs) - 1, 1, <<>>)

compareTransactionAndTransactionNumber(transaction, transactionNumber) ==
  transaction.transactionNumber - transactionNumber

\* SortedArray.binarySearch over 0-based indexes lower..upper.
RECURSIVE binarySearchLoop(_, _, _, _)
binarySearchLoop(sortedArray, searchItem, lower, upper) ==
  IF lower > upper
  THEN Undefined
  ELSE LET middle == (lower + upper) \div 2
           comparison ==
             compareTransactionAndTransactionNumber(sortedArray[middle + 1], searchItem)
       IN  IF comparison > 0
           THEN binarySearchLoop(sortedArray, searchItem, lower, middle - 1)
           ELSE IF comparison < 0
                THEN binarySearchLoop(sortedArray, searchItem, middle + 1, upper)
                ELSE Defined(middle)

binarySearch(sortedArray, searchItem) ==
  binarySearchLoop(sortedArray, searchItem, 0, Len(sortedArray) - 1)

\* transactionNumber is Undefined or Defined(n).  The result is the new
\* array and whether the call threw.
removeTransactionsLaterThan_exclusive(txs, transactionNumber) ==
  IF transactionNumber = Undefined
  THEN [transactions |-> <<>>, threw |-> FALSE]
  ELSE LET bestKnownValidRecentTransactionIndex ==
             binarySearch(txs, transactionNumber.value)
       IN  IF bestKnownValidRecentTransactionIndex = Undefined
           THEN [transactions |-> txs, threw |-> TRUE]
           ELSE [transactions |->
                   SubSeq(txs, 1, bestKnownValidRecentTransactionIndex.value),
                 threw |-> FALSE]

\* Without the check of line 85, `undefined + 1` is NaN and splice(NaN)
\* removes from index 0.
removeTransactionsLaterThan_unchecked(txs, transactionNumber) ==
  IF transactionNumber = Undefined
  THEN [transactions |-> <<>>, threw |-> FALSE]
  ELSE LET bestKnownValidRecentTransactionIndex ==
             binarySearch(txs, transactionNumber.value)
       IN  IF bestKnownValidRecentTransactionIndex = Undefined
           THEN [transactions |-> <<>>, threw |-> FALSE]
           ELSE [transactions |->
                   SubSeq(txs, 1, bestKnownValidRecentTransactionIndex.value + 1),
                 threw |-> FALSE]

removeTransactionsLaterThan(txs, transactionNumber) ==
  IF transactionNumber = Undefined
  THEN [transactions |-> <<>>, threw |-> FALSE]
  ELSE LET bestKnownValidRecentTransactionIndex ==
             binarySearch(txs, transactionNumber.value)
       IN  IF bestKnownValidRecentTransactionIndex = Undefined
           THEN [transactions |-> txs, threw |-> TRUE]
           ELSE [transactions |->
                   SubSeq(txs, 1, bestKnownValidRecentTransactionIndex.value + 1),
                 threw |-> FALSE]

\* ------------------------------------------------------------------------
\* BlockchainService: values exchanged with the blockchain service
\* ------------------------------------------------------------------------

\* The ingestion chains: one per startPeriodicProcessing call.
MaxStarts == 2

Chains == 1..MaxStarts

UpstreamTransactions == TransactionsUpTo(MaxUpstreamNumber)

\* The two arguments of handleFetchRequest, read from lastKnownTransaction.
FetchArguments_numberOnly(lastKnown) ==
  IF lastKnown = Undefined
  THEN [transactionNumber |-> Undefined, transactionTimeHash |-> Undefined]
  ELSE [transactionNumber |-> Defined(lastKnown.transactionNumber),
        transactionTimeHash |-> Undefined]

FetchArguments(lastKnown) ==
  IF lastKnown = Undefined
  THEN [transactionNumber |-> Undefined, transactionTimeHash |-> Undefined]
  ELSE [transactionNumber |-> Defined(lastKnown.transactionNumber),
        transactionTimeHash |-> Defined(lastKnown.transactionTimeHash)]

\* The transactions of one fetch response: at most MaxPage of them, in
\* strictly increasing transactionNumber order.
Pages ==
  {page \in UNION {[1..n -> UpstreamTransactions] : n \in 0..MaxPage} :
     StrictlyIncreasing(page)}

\* The `transactions` list of the first-valid request.
TransactionList(exponentiallySpacedTransactions) ==
  [i \in 1..Len(exponentiallySpacedTransactions) |->
     [transactionNumber |-> exponentiallySpacedTransactions[i].transactionNumber,
      transactionTime |-> exponentiallySpacedTransactions[i].transactionTime,
      transactionTimeHash |-> exponentiallySpacedTransactions[i].transactionTimeHash,
      anchorFileHash |-> exponentiallySpacedTransactions[i].anchorFileHash]]

\* ------------------------------------------------------------------------
\* State
\* ------------------------------------------------------------------------

VARIABLES
  transactions,                \* InMemoryTransactionStore.transactions
  call,                        \* the last call made from outside, on the store or the service
  continuePeriodicProcessing,  \* BlockchainService.continuePeriodicProcessing
  lastKnownTransaction,        \* BlockchainService.lastKnownTransaction
  pc,                          \* per chain: where its callback or cycle stands
  blockReorganizationDetected, \* per chain: the local of processTransactions
  moreTransactions,            \* per chain: the local of processTransactions
  fetchRequest,                \* per chain: arguments of the last handleFetchRequest
  firstValidRequest,           \* per chain: list of the last handleFirstValidRequest
  pending,                     \* per chain: transactions of the page still to add
  held,                        \* per chain: the value an await is about to deliver
  since                        \* per chain: what happened since its last fetch response

storeVars == <<transactions, call>>

engineVars ==
  <<continuePeriodicProcessing, lastKnownTransaction, pc,
    blockReorganizationDetected, moreTransactions, fetchRequest,
    firstValidRequest, pending, held, since>>

vars == <<transactions, call, continuePeriodicProcessing, lastKnownTransaction,
          pc, blockReorganizationDetected, moreTransactions, fetchRequest,
          firstValidRequest, pending, held, since>>

NoCall == [op |-> "none"]

\* No fetch response handled yet.
NoResponse ==
  [response |-> "none", more |-> FALSE, reference |-> Undefined,
   fork |-> "none", valid |-> Undefined, listed |-> FALSE, delayed |-> FALSE,
   caught |-> FALSE]

Init ==
  /\ transactions = <<>>
  /\ call = NoCall
  /\ continuePeriodicProcessing = FALSE
  /\ lastKnownTransaction = Undefined
  /\ pc = [c \in Chains |-> "none"]
  /\ blockReorganizationDetected = [c \in Chains |-> FALSE]
  /\ moreTransactions = [c \in Chains |-> FALSE]
  /\ fetchRequest = [c \in Chains |-> Undefined]
  /\ firstValidRequest = [c \in Chains |-> <<>>]
  /\ pending = [c \in Chains |-> <<>>]
  /\ held = [c \in Chains |-> Undefined]
  /\ since = [c \in Chains |-> NoResponse]

\* ------------------------------------------------------------------------
\* SpecStore: a client makes sequential calls on a fresh store
\* ------------------------------------------------------------------------

StoreArguments == TransactionsUpTo(MaxTransactionNumber)

RemoveArguments ==
  {Undefined} \cup {Defined(n) : n \in 0..(MaxTransactionNumber + 1)}

CallAddTransaction ==
  \E transaction \in StoreArguments :
    /\ transactions' = addTransaction(transactions, transaction)
    /\ call' = [op |-> "addTransaction", arg |-> transaction,
                before |-> transactions]
    /\ UNCHANGED engineVars

CallGetLastTransaction ==
  /\ call' = [op |-> "getLastTransaction", before |-> transactions,
              result |-> getLastTransaction(transactions)]
  /\ UNCHANGED transactions
  /\ UNCHANGED engineVars

CallGetExponentiallySpacedTransactions ==
  /\ call' = [op |-> "getExponentiallySpacedTransactions",
              before |-> transactions,
              result |-> getExponentiallySpacedTransactions(transactions)]
  /\ UNCHANGED transactions
  /\ UNCHANGED engineVars

CallRemoveTransactionsLaterThan ==
  \E transactionNumber \in RemoveArguments :
    LET outcome == removeTransactionsLaterThan(transactions, transactionNumber)
    IN  /\ transactions' = outcome.transactions
        /\ call' = [op |-> "removeTransactionsLaterThan",
                    arg |-> transactionNumber, before |-> transactions,
                    threw |-> outcome.threw]
        /\ UNCHANGED engineVars

StoreNext ==
  \/ CallAddTransaction
  \/ CallGetLastTransaction
  \/ CallGetExponentiallySpacedTransactions
  \/ CallRemoveTransactionsLaterThan

SpecStore == Init /\ [][StoreNext]_vars

\* ------------------------------------------------------------------------
\* SpecEngine: BlockchainService, started once, against the blockchain service
\* ------------------------------------------------------------------------

\* Top of the do-while body: read lastKnownTransaction and call
\* handleFetchRequest (lines 182-188).
IssueFetch(c, lastKnown) ==
  /\ pc' = [pc EXCEPT ![c] = "fetch"]
  /\ fetchRequest' = [fetchRequest EXCEPT ![c] = FetchArguments(lastKnown)]

\* A finally block that never calls setTimeout.
EndCycle_noTimer(c) ==
  /\ pc' = [pc EXCEPT ![c] = "stopped"]
  /\ UNCHANGED fetchRequest

\* The finally block (lines 226-231).
EndCycle(c) ==
  /\ pc' = [pc EXCEPT ![c] =
              IF continuePeriodicProcessing THEN "timer" ELSE "stopped"]
  /\ UNCHANGED fetchRequest

\* `while (moreTransactions)` (line 222).
LoopEnd(c, more, lastKnown) ==
  IF more THEN IssueFetch(c, lastKnown) ELSE EndCycle(c)

\* Lines 214-222, after the response was handled: with the flag set,
\* RevertInvalidTransactions starts and reads the checkpoints (line 239).
AfterFetch(c, reorganized, more, lastKnown) ==
  IF reorganized
  THEN /\ pc' = [pc EXCEPT ![c] = "sampled"]
       /\ held' = [held EXCEPT ![c] =
                     getExponentiallySpacedTransactions(transactions)]
       /\ UNCHANGED fetchRequest
  ELSE /\ LoopEnd(c, more, lastKnown)
       /\ UNCHANGED held

\* processTransactions is entered (lines 174-188).
BeginCycle(c) ==
  /\ blockReorganizationDetected' =
       [blockReorganizationDetected EXCEPT ![c] = FALSE]
  /\ moreTransactions' = [moreTransactions EXCEPT ![c] = FALSE]
  /\ IssueFetch(c, lastKnownTransaction)

\* A fetch response arrives; `caught` tells whether it is a rejection, which
\* the catch block logs (lines 223-225).
Responded(c, response, more) ==
  since' = [since EXCEPT ![c] =
              [response |-> response, more |-> more,
               reference |-> fetchRequest[c], fork |-> "none",
               valid |-> Undefined, listed |-> FALSE, delayed |-> FALSE,
               caught |-> response = "Threw"]]

\* startPeriodicProcessing is called and runs up to its await (line 150).
BeginStart(c) ==
  /\ pc' = [pc EXCEPT ![c] = "starting"]
  /\ held' = [held EXCEPT ![c] = getLastTransaction(transactions)]
  /\ call' = [op |-> "startPeriodicProcessing"]
  /\ UNCHANGED <<transactions, continuePeriodicProcessing,
                 lastKnownTransaction, blockReorganizationDetected,
                 moreTransactions, fetchRequest, firstValidRequest, pending,
                 since>>

\* startPeriodicProcessing up to its await (line 150); the service has not
\* been started before.
StartPeriodicProcessing(c) ==
  /\ \A d \in Chains : pc[d] = "none"
  /\ c = 1
  /\ BeginStart(c)

\* startPeriodicProcessing after its await (lines 150-158).
StartResumes(c) ==
  /\ pc[c] = "starting"
  /\ lastKnownTransaction' = held[c]
  /\ pc' = [pc EXCEPT ![c] = "immediate"]
  /\ UNCHANGED <<transactions, call, continuePeriodicProcessing,
                 blockReorganizationDetected, moreTransactions, fetchRequest,
                 firstValidRequest, pending, held, since>>

\* The setImmediate callback (lines 153-158).
ImmediateCallback(c) ==
  /\ pc[c] = "immediate"
  /\ continuePeriodicProcessing' = TRUE
  /\ BeginCycle(c)
  /\ UNCHANGED <<transactions, call, lastKnownTransaction, firstValidRequest,
                 pending, held, since>>

\* The setTimeout callback (line 229).
TimerCallback(c) ==
  /\ pc[c] = "timer"
  /\ BeginCycle(c)
  /\ since' = [since EXCEPT ![c].delayed = TRUE]
  /\ UNCHANGED <<transactions, call, continuePeriodicProcessing,
                 lastKnownTransaction, firstValidRequest, pending, held>>

\* stopPeriodicProcessing (lines 165-168).
StopPeriodicProcessing ==
  /\ continuePeriodicProcessing' = FALSE
  /\ call' = [op |-> "stopPeriodicProcessing"]
  /\ UNCHANGED <<transactions, lastKnownTransaction, pc,
                 blockReorganizationDetected, moreTransactions, fetchRequest,
                 firstValidRequest, pending, held, since>>

\* handleFetchRequest rejects (lines 210-212, 223-226).
FetchThrows(c) ==
  /\ pc[c] = "fetch"
  /\ Responded(c, "Threw", FALSE)
  /\ EndCycle(c)
  /\ UNCHANGED <<transactions, call, continuePeriodicProcessing,
                 lastKnownTransaction, blockReorganizationDetected,
                 moreTransactions, firstValidRequest, pending, held>>

\* The response is Succeeded (lines 191-202): the page is taken, and
\* addTransaction of its first transaction reads the newest stored one.
FetchSucceededWith(c, pages) ==
  \E page \in pages : \E more \in BOOLEAN :
    /\ pc[c] = "fetch"
    /\ Responded(c, "Succeeded", more)
    /\ moreTransactions' = [moreTransactions EXCEPT ![c] = more]
    /\ pending' = [pending EXCEPT ![c] = page]
    /\ IF Len(page) > 0
       THEN /\ pc' = [pc EXCEPT ![c] = "adding"]
            /\ held' = [held EXCEPT ![c] = getLastTransaction(transactions)]
            /\ UNCHANGED fetchRequest
       ELSE AfterFetch(c, blockReorganizationDetected[c], more,
                       lastKnownTransaction)
    /\ UNCHANGED <<transactions, call, continuePeriodicProcessing,
                   lastKnownTransaction, blockReorganizationDetected,
                   firstValidRequest>>

FetchSucceeded(c) == FetchSucceededWith(c, Pages)

\* addTransaction after its await (lines 43-47).
AddTransactionResumes(c) ==
  /\ pc[c] = "adding"
  /\ transactions' =
       addTransaction_push(transactions, held[c], Head(pending[c]))
  /\ pc' = [pc EXCEPT ![c] = "added"]
  /\ UNCHANGED <<call, continuePeriodicProcessing, lastKnownTransaction,
                 blockReorganizationDetected, moreTransactions, fetchRequest,
                 firstValidRequest, pending, held, since>>

\* The loop body calls getLastTransaction (line 201, up to the await).
ReadLastTransaction(c) ==
  /\ pc[c] = "added"
  /\ held' = [held EXCEPT ![c] = getLastTransaction(transactions)]
  /\ pc' = [pc EXCEPT ![c] = "refreshing"]
  /\ UNCHANGED <<transactions, call, continuePeriodicProcessing,
                 lastKnownTransaction, blockReorganizationDetected,
                 moreTransactions, fetchRequest, firstValidRequest, pending,
                 since>>

\* lastKnownTransaction is assigned (line 201); then the next transaction of
\* the page, or the rest of the loop body (lines 214-222).
RefreshLastKnownTransaction(c) ==
  /\ pc[c] = "refreshing"
  /\ lastKnownTransaction' = held[c]
  /\ pending' = [pending EXCEPT ![c] = Tail(pending[c])]
  /\ IF Len(pending[c]) > 1
     THEN /\ pc' = [pc EXCEPT ![c] = "adding"]
          /\ held' = [held EXCEPT ![c] = getLastTransaction(transactions)]
          /\ UNCHANGED fetchRequest
     ELSE AfterFetch(c, blockReorganizationDetected[c], moreTransactions[c],
                     held[c])
  /\ UNCHANGED <<transactions, call, continuePeriodicProcessing,
                 blockReorganizationDetected, moreTransactions,
                 firstValidRequest, since>>

\* The response is BadRequest with the reorganization code (lines 203-208).
\* The blockchain service gives it for a reference it was sent, so not to a
\* fetch from the start.
FetchReorganized(c) ==
  /\ pc[c] = "fetch"
  /\ fetchRequest[c].transactionNumber # Undefined
  /\ Responded(c, "Reorganized", FALSE)
  /\ blockReorganizationDetected' =
       [blockReorganizationDetected EXCEPT ![c] = TRUE]
  /\ AfterFetch(c, TRUE, moreTransactions[c], lastKnownTransaction)
  /\ UNCHANGED <<transactions, call, continuePeriodicProcessing,
                 lastKnownTransaction, moreTransactions, firstValidRequest,
                 pending>>

\* The response is BadRequest with another code, or has another status:
\* neither branch of lines 191-209 does anything.
FetchRefused(c) ==
  /\ pc[c] = "fetch"
  /\ Responded(c, "Refused", FALSE)
  /\ AfterFetch(c, blockReorganizationDetected[c], moreTransactions[c],
                lastKnownTransaction)
  /\ UNCHANGED <<transactions, call, continuePeriodicProcessing,
                 lastKnownTransaction, blockReorganizationDetected,
                 moreTransactions, firstValidRequest, pending>>

\* RevertInvalidTransactions builds the list and calls
\* handleFirstValidRequest (lines 241-258).
SendFirstValidRequest(c) ==
  /\ pc[c] = "sampled"
  /\ firstValidRequest' =
       [firstValidRequest EXCEPT ![c] = TransactionList(held[c])]
  /\ pc' = [pc EXCEPT ![c] = "firstValid"]
  /\ UNCHANGED <<transactions, call, continuePeriodicProcessing,
                 lastKnownTransaction, blockReorganizationDetected,
                 moreTransactions, fetchRequest, pending, held, since>>

\* handleFirstValidRequest rejects (lines 223-226).
FirstValidThrows(c) ==
  /\ pc[c] = "firstValid"
  /\ since' = [since EXCEPT ![c].fork = "threw", ![c].caught = TRUE]
  /\ EndCycle(c)
  /\ UNCHANGED <<transactions, call, continuePeriodicProcessing,
                 lastKnownTransaction, blockReorganizationDetected,
                 moreTransactions, firstValidRequest, pending, held>>

\* The first-valid response is not Succeeded (line 260 is false).
FirstValidNotSucceeded(c) ==
  /\ pc[c] = "firstValid"
  /\ since' = [since EXCEPT ![c].fork = "refused"]
  /\ LoopEnd(c, moreTransactions[c], lastKnownTransaction)
  /\ UNCHANGED <<transactions, call, continuePeriodicProcessing,
                 lastKnownTransaction, blockReorganizationDetected,
                 moreTransactions, firstValidRequest, pending, held>>

\* The first-valid response is Succeeded with `body` (lines 260-264):
\* removeTransactionsLaterThan runs, and its throw ends the cycle.
Truncate(c, body) ==
  LET outcome ==
        removeTransactionsLaterThan(transactions, Defined(body.transactionNumber))
      listed == body \in Range(firstValidRequest[c])
  IN  /\ pc[c] = "firstValid"
      /\ transactions' = outcome.transactions
      /\ IF outcome.threw
         THEN /\ since' = [since EXCEPT ![c].fork = "inconsistent",
                                        ![c].valid = body,
                                        ![c].listed = listed,
                                        ![c].caught = TRUE]
              /\ EndCycle(c)
              /\ UNCHANGED held
         ELSE /\ since' = [since EXCEPT ![c].fork = "truncated",
                                        ![c].valid = body,
                                        ![c].listed = listed]
              /\ pc' = [pc EXCEPT ![c] = "truncated"]
              /\ held' = [held EXCEPT ![c] = body]
              /\ UNCHANGED fetchRequest
      /\ UNCHANGED <<call, continuePeriodicProcessing, lastKnownTransaction,
                     blockReorganizationDetected, moreTransactions,
                     firstValidRequest, pending>>

\* The blockchain service answers with a transaction of the list it was sent.
FirstValidSucceeded(c) ==
  \E body \in Range(firstValidRequest[c]) : Truncate(c, body)

\* The blockchain service answers with a transaction that is not in the list.
FirstValidSucceededUnlisted(c) ==
  \E body \in UpstreamTransactions \ Range(firstValidRequest[c]) :
    Truncate(c, body)

\* lastKnownTransaction is reset to the response body (line 267), and the
\* loop condition is evaluated (line 222).
ResetLastKnownTransaction(c) ==
  /\ pc[c] = "truncated"
  /\ lastKnownTransaction' = held[c]
  /\ LoopEnd(c, moreTransactions[c], held[c])
  /\ UNCHANGED <<transactions, call, continuePeriodicProcessing,
                 blockReorganizationDetected, moreTransactions,
                 firstValidRequest, pending, held, since>>

EngineNext ==
  \E c \in Chains :
       \/ StartPeriodicProcessing(c)
       \/ StartResumes(c)
       \/ ImmediateCallback(c)
       \/ TimerCallback(c)
       \/ FetchThrows(c)
       \/ FetchSucceeded(c)
       \/ AddTransactionResumes(c)
       \/ ReadLastTransaction(c)
       \/ RefreshLastKnownTransaction(c)
       \/ FetchReorganized(c)
       \/ FetchRefused(c)
       \/ SendFirstValidRequest(c)
       \/ FirstValidThrows(c)
       \/ FirstValidNotSucceeded(c)
       \/ FirstValidSucceeded(c)
       \/ FirstValidSucceededUnlisted(c)
       \/ ResetLastKnownTransaction(c)

SpecEngine == Init /\ [][EngineNext]_vars

\* ------------------------------------------------------------------------
\* SpecProtocol: as SpecEngine, with a blockchain service whose first-valid
\* answers are always taken from the list it was sent
\* ------------------------------------------------------------------------

ProtocolNext ==
  \E c \in Chains :
       \/ StartPeriodicProcessing(c)
       \/ StartResumes(c)
       \/ ImmediateCallback(c)
       \/ TimerCallback(c)
       \/ FetchThrows(c)
       \/ FetchSucceeded(c)
       \/ AddTransactionResumes(c)
       \/ ReadLastTransaction(c)
       \/ RefreshLastKnownTransaction(c)
       \/ FetchReorganized(c)
       \/ FetchRefused(c)
       \/ SendFirstValidRequest(c)
       \/ FirstValidThrows(c)
       \/ FirstValidNotSucceeded(c)
       \/ FirstValidSucceeded(c)
       \/ ResetLastKnownTransaction(c)

SpecProtocol == Init /\ [][ProtocolNext]_vars

\* ------------------------------------------------------------------------
\* Properties of the store (checked under SpecStore)
\* ------------------------------------------------------------------------

Last(s) == s[Len(s)]

RECURSIVE Pow2(_)
Pow2(k) == IF k = 0 THEN 1 ELSE 2 * Pow2(k - 1)

\* The number of k >= 0 with 2^k <= n, which is floor(log2(n)) + 1 for n >= 1.
StridesWithin(n) == Cardinality({k \in 0..n : Pow2(k) <= n})

FloorLog2(n) == CHOOSE k \in 0..n : Pow2(k) <= n /\ n < Pow2(k + 1)

CeilLog2(n) == CHOOSE k \in 0..n : n <= Pow2(k) /\ (k = 0 \/ Pow2(k - 1) < n)

KeptUpTo(s, n) == SelectSeq(s, LAMBDA t : t.transactionNumber <= n)

\* C1: after any sequence of addTransaction and removeTransactionsLaterThan
\* calls on a fresh store, the stored transactions have strictly increasing
\* transactionNumber, so no number is stored twice.
C1_StrictlyIncreasing == StrictlyIncreasing(transactions)

C1_Witness ==
  /\ call.op = "removeTransactionsLaterThan"
  /\ ~call.threw
  /\ Len(transactions) >= 2
  /\ Len(transactions) < Len(call.before)

\* C2: addTransaction of a transaction whose number is <= the newest stored
\* number leaves a non-empty log unchanged, and repeating an addTransaction
\* call changes nothing.
C2_Idempotent ==
  call.op = "addTransaction" =>
    /\ (/\ call.before # <<>>
        /\ call.arg.transactionNumber <= Last(call.before).transactionNumber)
       => transactions = call.before
    /\ addTransaction(transactions, call.arg) = transactions

C2_Witness ==
  /\ call.op = "addTransaction"
  /\ Len(call.before) >= 2
  /\ call.arg.transactionNumber = Last(call.before).transactionNumber
  /\ call.arg # Last(call.before)
  /\ transactions = call.before

\* C3: getLastTransaction returns the stored transaction with the largest
\* transactionNumber, and undefined exactly when the log is empty.
C3_LastIsMaximum ==
  call.op = "getLastTransaction" =>
    /\ (call.result = Undefined) <=> (call.before = <<>>)
    /\ call.result # Undefined =>
         /\ call.result \in Range(call.before)
         /\ \A t \in Range(call.before) :
              t.transactionNumber <= call.result.transactionNumber

C3_Witness ==
  /\ call.op = "getLastTransaction"
  /\ Len(call.before) >= 3
  /\ call.result = call.before[Len(call.before)]

\* C4: for a log of size n, getExponentiallySpacedTransactions returns,
\* newest first, exactly the transactions at the 0-based indexes n - 2^k
\* (k = 0, 1, 2, ...) that are >= 0; its first element is the last
\* transaction of a non-empty log, and the log is unchanged.
C4_CheckpointIndexes ==
  call.op = "getExponentiallySpacedTransactions" =>
    LET n == Len(call.before)
    IN  /\ Len(call.result) = StridesWithin(n)
        /\ \A i \in 1..Len(call.result) :
             call.result[i] = call.before[(n - Pow2(i - 1)) + 1]
        /\ n > 0 => call.result[1] = Last(call.before)
        /\ transactions = call.before

C4_Witness ==
  /\ call.op = "getExponentiallySpacedTransactions"
  /\ Len(call.before) = 5
  /\ call.result = <<call.before[5], call.before[4], call.before[2]>>

\* C5 as stated: the number of checkpoints of a log of size n >= 1 is
\* ceil(log2(n)) + 1.
C5_CountIsCeilLog2 ==
  (call.op = "getExponentiallySpacedTransactions" /\ Len(call.before) >= 1) =>
    Len(call.result) = CeilLog2(Len(call.before)) + 1

\* C5 amended: the number of checkpoints of a log of size n is
\* floor(log2(n)) + 1 for n >= 1 and 0 for n = 0.
C5_CountIsFloorLog2 ==
  call.op = "getExponentiallySpacedTransactions" =>
    Len(call.result) =
      IF Len(call.before) = 0 THEN 0 ELSE FloorLog2(Len(call.before)) + 1

C5_Witness ==
  /\ call.op = "getExponentiallySpacedTransactions"
  /\ Len(call.before) = 3
  /\ Len(call.result) = 2

\* C6: removeTransactionsLaterThan(n), n the number of a stored
\* transaction, leaves exactly the stored transactions with number <= n,
\* in their order; removeTransactionsLaterThan(undefined) empties the log.
C6_TruncationRetainsUpTo ==
  call.op = "removeTransactionsLaterThan" =>
    IF call.arg = Undefined
    THEN transactions = <<>> /\ ~call.threw
    ELSE call.arg.value \in Numbers(call.before) =>
           /\ ~call.threw
           /\ transactions = KeptUpTo(call.before, call.arg.value)

C6_Witness ==
  /\ call.op = "removeTransactionsLaterThan"
  /\ call.arg # Undefined
  /\ Len(call.before) >= 4
  /\ call.arg.value = call.before[2].transactionNumber
  /\ transactions = SubSeq(call.before, 1, 2)

\* C7: removeTransactionsLaterThan(n) with a defined n that is the number of
\* no stored transaction throws and leaves the log unchanged.
C7_UnknownNumberThrows ==
  (/\ call.op = "removeTransactionsLaterThan"
   /\ call.arg # Undefined
   /\ call.arg.value \notin Numbers(call.before))
  => (call.threw /\ transactions = call.before)

C7_Witness ==
  /\ call.op = "removeTransactionsLaterThan"
  /\ call.arg # Undefined
  /\ Len(call.before) >= 2
  /\ call.before[1].transactionNumber < call.arg.value
  /\ call.arg.value < Last(call.before).transactionNumber
  /\ call.arg.value \notin Numbers(call.before)
  /\ call.threw

\* ------------------------------------------------------------------------
\* Properties of the engine (checked under SpecEngine)
\* ------------------------------------------------------------------------

C9_NextFetchUsesNewTail ==
  \A c \in Chains :
    (pc[c] = "fetch" /\ since[c].response = "Reorganized")
    => /\ fetchRequest[c] = FetchArguments(getLastTransaction(transactions))
       /\ fetchRequest[c] # since[c].reference

\* C9 amended: the fetch that follows a reorganization signal uses the
\* transaction of a Succeeded first-valid response that truncated the log
\* as reference (number and time hash), which is the newest stored
\* transaction when it is one of the checkpoints sent; when fork resolution
\* did not truncate (first-valid not Succeeded or rejected, or the
\* truncation threw) it uses the reference of the fetch that got the signal.
C9_NextFetchAfterForkResolution ==
  \A c \in Chains :
    (pc[c] = "fetch" /\ since[c].response = "Reorganized")
    => /\ since[c].fork \in {"truncated", "refused", "threw", "inconsistent"}
       /\ since[c].fork = "truncated"
          => /\ fetchRequest[c].transactionNumber =
                  Defined(since[c].valid.transactionNumber)
             /\ fetchRequest[c].transactionTimeHash =
                  Defined(since[c].valid.transactionTimeHash)
             /\ since[c].listed
                => since[c].valid = getLastTransaction(transactions)
       /\ since[c].fork # "truncated"
          => fetchRequest[c] = since[c].reference

C9_Witness ==
  \E c \in Chains :
    /\ pc[c] = "fetch"
    /\ since[c].response = "Reorganized"
    /\ since[c].fork = "truncated"
    /\ since[c].listed
    /\ since[c].delayed
    /\ fetchRequest[c] # since[c].reference
    /\ fetchRequest[c].transactionNumber =
         Defined(Last(transactions).transactionNumber)

\* C10: after a Succeeded response with moreTransactions = true the cycle
\* does not end before another fetch, and that fetch, issued without a
\* timer in between, uses the newest stored transaction as reference.
C10_PaginationFetchesAgain ==
  \A c \in Chains :
    (since[c].response = "Succeeded" /\ since[c].more)
    => /\ pc[c] \notin {"timer", "stopped"}
       /\ pc[c] = "fetch"
          => /\ ~since[c].delayed
             /\ fetchRequest[c] =
                  FetchArguments(getLastTransaction(transactions))

\* ------------------------------------------------------------------------
\* The service's view of the log
\* ------------------------------------------------------------------------

\* A chain has changed the log and has not yet assigned lastKnownTransaction
\* (between the push of line 46 and line 201, between lines 264 and 267).
Mutating(c) == pc[c] \in {"added", "refreshing", "truncated"}

MaxLifecycleNumber == 1

LifecyclePages ==
  {page \in Pages :
     \A i \in 1..Len(page) :
       /\ page[i].transactionNumber <= MaxLifecycleNumber
       /\ page[i].transactionTimeHash = "h1"}

\* startPeriodicProcessing is called, at any moment, for the c-th time.
CallStartPeriodicProcessing(c) ==
  /\ pc[c] = "none"
  /\ \A d \in Chains : d < c => pc[d] # "none"
  /\ BeginStart(c)

LifecycleNext ==
  \/ StopPeriodicProcessing
  \/ \E c \in Chains :
       \/ CallStartPeriodicProcessing(c)
       \/ StartResumes(c)
       \/ ImmediateCallback(c)
       \/ TimerCallback(c)
       \/ FetchThrows(c)
       \/ FetchSucceededWith(c, LifecyclePages)
       \/ AddTransactionResumes(c)
       \/ ReadLastTransaction(c)
       \/ RefreshLastKnownTransaction(c)
       \/ FetchReorganized(c)
       \/ FetchRefused(c)
       \/ SendFirstValidRequest(c)
       \/ FirstValidThrows(c)
       \/ FirstValidNotSucceeded(c)
       \/ FirstValidSucceeded(c)
       \/ ResetLastKnownTransaction(c)

SpecLifecycle == Init /\ [][LifecycleNext]_vars

\* A processTransactions execution of chain c has begun and has not reached
\* its finally block.
InFlight(c) ==
  pc[c] \in {"fetch", "adding", "added", "refreshing", "sampled",
             "firstValid", "truncated"}

\* C12: under any sequence of start and stop calls, timer firings and
\* blockchain service responses, at most one processTransactions execution
\* is in flight at any time.
C12_AtMostOneCycle ==
  Cardinality({c \in Chains : InFlight(c)}) <= 1

\* C13: once stopPeriodicProcessing has been called and
\* startPeriodicProcessing has not been called again, the running flag
\* stays false, whatever the moment of the stop call.
C13_StopHolds ==
  call.op = "stopPeriodicProcessing" => ~continuePeriodicProcessing

\* ------------------------------------------------------------------------
\* The scheduling boundary
\* ------------------------------------------------------------------------

\* C14: however a processTransactions execution ends (its loop ends after a
\* response, a request rejects, fork resolution is done, the truncation
\* throws), if the running flag is true at that moment the chain holds
\* exactly one pending timer, and the timer's callback begins the next
\* cycle; a failure never ends the chain.
C14_CycleEndReschedules ==
  [][\A c \in Chains :
       /\ (InFlight(c) /\ ~InFlight(c)' /\ continuePeriodicProcessing)
          => pc'[c] = "timer"
       /\ (pc[c] = "timer" /\ pc'[c] # "timer")
          => (InFlight(c)' /\ since'[c].delayed)]_vars

C14_Witness ==
  \E c \in Chains :
    /\ pc[c] = "timer"
    /\ continuePeriodicProcessing
    /\ since[c].caught
    /\ since[c].fork = "inconsistent"

\* ------------------------------------------------------------------------
\* Failures
\* ------------------------------------------------------------------------

\* C15: after a fetch that rejected, or whose response is neither Succeeded
\* nor the reorg-signal BadRequest, the cycle sends no further request: no
\* first-valid request, and no fetch before the timer of the next cycle.
C15_FailureAbortsCycle ==
  \A c \in Chains :
    since[c].response \in {"Threw", "Refused"}
    => /\ pc[c] \notin {"firstValid", "truncated"}
       /\ pc[c] = "fetch" => since[c].delayed

\* C16: when the first-valid request of a fork resolution is answered with a
\* status other than Succeeded, the cycle fails: it ends through the catch
\* block instead of going on.
C16_NoValidCheckpointFails ==
  \A c \in Chains :
    since[c].fork = "refused"
    => /\ since[c].caught
       /\ pc[c] \in {"timer", "stopped"}

\* ------------------------------------------------------------------------
\* Fork resolution against the stored log
\* ------------------------------------------------------------------------

C18_ForkResolutionOnlyOnSignal ==
  \A c \in Chains :
    pc[c] \in {"sampled", "firstValid", "truncated"}
    => since[c].response = "Reorganized"

\* ------------------------------------------------------------------------
\* SpecConcurrentStore: addTransaction calls that are not awaited one after
\* the other; each caller of Chains has at most one call in flight
\* ------------------------------------------------------------------------

MaxConcurrentNumber == 2

ConcurrentArguments == TransactionsUpTo(MaxConcurrentNumber)

\* addTransaction is called and runs up to its await (lines 38-41):
\* getLastTransaction has read the log.
AddTransactionCalled(c) ==
  \E transaction \in ConcurrentArguments :
    /\ pc[c] = "none"
    /\ pending' = [pending EXCEPT ![c] = <<transaction>>]
    /\ held' = [held EXCEPT ![c] = getLastTransaction(transactions)]
    /\ pc' = [pc EXCEPT ![c] = "adding"]
    /\ UNCHANGED <<transactions, call, continuePeriodicProcessing,
                   lastKnownTransaction, blockReorganizationDetected,
                   moreTransactions, fetchRequest, firstValidRequest, since>>

\* addTransaction after its await (lines 41-47), to its return.
AddTransactionReturns(c) ==
  /\ pc[c] = "adding"
  /\ transactions' =
       addTransaction_push(transactions, held[c], Head(pending[c]))
  /\ pending' = [pending EXCEPT ![c] = <<>>]
  /\ pc' = [pc EXCEPT ![c] = "none"]
  /\ UNCHANGED <<call, continuePeriodicProcessing, lastKnownTransaction,
                 blockReorganizationDetected, moreTransactions, fetchRequest,
                 firstValidRequest, held, since>>

ConcurrentNext ==
  \E c \in Chains :
    \/ AddTransactionCalled(c)
    \/ AddTransactionReturns(c)

SpecConcurrentStore == Init /\ [][ConcurrentNext]_vars

\* C19: when no addTransaction call is in flight any more, the log has
\* strictly increasing transactionNumber, without duplicate, however the
\* calls interleaved at their await.
C19_InterleavedAddsKeepOrder ==
  (\A c \in Chains : pc[c] # "adding")
  => StrictlyIncreasing(transactions)

\* ------------------------------------------------------------------------
\* SpecFairProtocol: SpecProtocol with every request answered and every
\* scheduled callback and continuation run
\* ------------------------------------------------------------------------

SpecFairProtocol == SpecProtocol /\ WF_vars(ProtocolNext)

\* The blockchain service answers a fetch with Succeeded and
\* moreTransactions = true.
MorePage ==
  \E c \in Chains :
    /\ pc[c] = "fetch"
    /\ since'[c].response = "Succeeded"
    /\ since'[c].more

\* C20: if Succeeded responses with moreTransactions = true come only
\* finitely many times, every processTransactions execution eventually
\* leaves its loop and reaches the finally block, whatever the other
\* responses are.
C20_CycleTerminates ==
  <>[][~MorePage]_vars
  => \A c \in Chains : [](InFlight(c) => <>~InFlight(c))

====
